---- MODULE Spec2Model ----
(***************************************************************************)
(* A model of the @akwaba/events registry (src/src/event.js): the          *)
(* per-element handler stores, the wrapper functions, the host's listener  *)
(* lists, the global element cache and the dom:loaded bootstrap; of its    *)
(* pointer function; and of the KeyMap class (src/unnamed/part_000).       *)
(*                                                                         *)
(* Event names are sequences of tokens, so that "login:request" is         *)
(* <<"login", ":", "request">> and `on${eventName}` is <<"on">> \o name.   *)
(* The undefined / empty event name is the empty sequence.                 *)
(***************************************************************************)
EXTENDS Integers, Sequences, FiniteSets, TLC

(***************************************************************************)
(* Bounds of the exploration.                                              *)
(***************************************************************************)
\* number of wrapper function objects that can be referenced at one time
MaxWrappers == 3
\* depth of nested remove() activations the engine's call stack allows
StackLimit == 4
\* number of times the bootstrap is allowed to run fire() before the model stops counting
MaxLoadedFires == 2
\* number of key names a KeyMap is given bindings for
MaxBindings == 2

(***************************************************************************)
(* Values.                                                                 *)
(***************************************************************************)
Undefined == "undefined"
Null == "null"
EmptyObject == "{}"
NoName == << >>

Document == "document"
DocumentElement == "html"
Elements == {Document, DocumentElement}

\* element identifiers given as strings to add(), resolved by HTML.getElement
ElementIds == {"#html", "#missing"}

Callbacks == {"f", "g"}
Payloads == {"payload"}

Click == <<"click">>
LoginRequest == <<"login", ":", "request">>
DomLoaded == <<"dom", ":", "loaded">>
DataAvailable == <<"dataavailable">>
FilterChange == <<"filterchange">>
EventNames == {Click, LoginRequest, DomLoaded}

Hosts == {"w3c", "w3c-nodocdispatch", "ie"}

WrapperIds == 1 .. MaxWrappers

VARIABLES
    host,           \* which event model the browser provides
    storage,        \* DOM.storage slot "events" of each element
    fn,             \* the wrapper function objects created by createHandler
    listeners,      \* the host's listener lists, per element and event type
    eventCache,     \* the module-level eventCache array
    loaded,         \* document.loaded
    onreadystatechange, \* whether the deferred script's readystate callback is installed
    loadedFires,    \* how many times the bootstrap executed fire(document, "dom:loaded")
    registered,     \* history: callbacks the client added and has not removed since
    last,           \* the last call and what it did
    map,            \* the map of a KeyMap instance: key name to handler
    keyed,          \* the last call on the KeyMap instance and what it did
    pointed         \* the last call of pointer and what it returned

vars == <<host, storage, fn, listeners, eventCache, loaded, onreadystatechange,
          loadedFires, registered, last, map, keyed, pointed>>

registryVars == <<host, storage, fn, listeners, eventCache, loaded, onreadystatechange,
                  loadedFires, registered, last>>

(***************************************************************************)
(* Host capabilities.                                                      *)
(***************************************************************************)
HasAddEventListener == host \in {"w3c", "w3c-nodocdispatch"}
HasAttachEvent == host = "ie"
HasCreateEvent == host \in {"w3c", "w3c-nodocdispatch"}
HasCreateEventObject == host = "ie"
HasDispatchEvent(element) == host = "w3c" \/ (host = "w3c-nodocdispatch" /\ element # Document)

Parent(element) == IF element = DocumentElement THEN Document ELSE Null

IsString(x) == x \in ElementIds

GetElement(id) == IF id = "#html" THEN DocumentElement ELSE Null

On(eventName) == <<"on">> \o eventName

ListenerTypes == {Click, DataAvailable, On(Click), On(DataAvailable), On(FilterChange)}

IsCustomEvent(eventName) == \E i \in DOMAIN eventName : eventName[i] = ":"

(***************************************************************************)
(* Sequence helpers.                                                       *)
(***************************************************************************)
Range(s) == {s[i] : i \in DOMAIN s}

RemoveAt(s, i) == SubSeq(s, 1, i - 1) \o SubSeq(s, i + 1, Len(s))

IndexOf(s, x) == IF \E i \in DOMAIN s : s[i] = x
                 THEN CHOOSE i \in DOMAIN s : s[i] = x /\ \A j \in 1 .. (i - 1) : s[j] # x
                 ELSE 0

Without(s, x) == IF IndexOf(s, x) = 0 THEN s ELSE RemoveAt(s, IndexOf(s, x))

RECURSIVE Flatten(_)
Flatten(ss) == IF ss = << >> THEN << >> ELSE Head(ss) \o Flatten(Tail(ss))

(***************************************************************************)
(* The heap the registry works on.                                         *)
(***************************************************************************)
Heap == [storage |-> storage, fn |-> fn, listeners |-> listeners, eventCache |-> eventCache]

NoFunction == [element |-> Null, eventName |-> NoName, fn |-> Undefined, callback |-> Undefined]

HasModel(H, element) == H.storage[element] # << >>

Model(H, element) == H.storage[element][1]

KeyIndex(model, eventName) ==
    IF \E i \in DOMAIN model : model[i].name = eventName
    THEN CHOOSE i \in DOMAIN model : model[i].name = eventName
    ELSE 0

HandlersOf(H, element, eventName) ==
    IF ~HasModel(H, element) \/ KeyIndex(Model(H, element), eventName) = 0
    THEN << >>
    ELSE Model(H, element)[KeyIndex(Model(H, element), eventName)].handlers

FreeIds(H) == {id \in WrapperIds : H.fn[id] = NoFunction}


(***************************************************************************)
(* The host's registration primitives.                                     *)
(***************************************************************************)
\* addEventListener ignores a listener already registered for the type
AddEventListener(H, element, type, handler) ==
    IF handler \in Range(H.listeners[element][type])
    THEN H
    ELSE [H EXCEPT !.listeners[element][type] = Append(@, handler)]

\* attachEvent appends without looking
AttachEvent(H, element, type, handler) ==
    [H EXCEPT !.listeners[element][type] = Append(@, handler)]

RemoveEventListener(H, element, type, handler) ==
    [H EXCEPT !.listeners[element][type] = Without(@, handler)]

DetachEvent(H, element, type, handler) ==
    [H EXCEPT !.listeners[element][type] = Without(@, handler)]

(***************************************************************************)
(* createHandler: the store, the duplicate check and the wrapper.          *)
(***************************************************************************)
\* the element's store and the event name's handler array, made when missing
EnsureStore(H, element, eventName) ==
    LET H1 == IF ~HasModel(H, element)
              THEN [H EXCEPT !.storage[element] = << << >> >>,
                             !.eventCache = Append(@, element)]
              ELSE H
    IN  IF KeyIndex(Model(H1, element), eventName) = 0
        THEN [H1 EXCEPT !.storage[element] =
                  << Append(Model(H1, element), [name |-> eventName, handlers |-> << >>]) >>]
        ELSE H1

\* the wrapper, with its callback property, pushed on the handler array
NewHandler(H, element, eventName, callback) ==
    LET k == KeyIndex(Model(H, element), eventName)
        id == CHOOSE i \in FreeIds(H) : \A j \in FreeIds(H) : i <= j
    IN  [heap |-> [H EXCEPT
                     !.fn[id] = [element |-> element, eventName |-> eventName,
                                 fn |-> callback, callback |-> callback],
                     !.storage[element] =
                         << [Model(H, element) EXCEPT ![k].handlers = Append(@, id)] >>],
         handler |-> id]

\* a createHandler whose duplicate check never matches
CreateHandlerUnchecked(H, element, eventName, callback) ==
    LET H2 == EnsureStore(H, element, eventName)
    IN  IF FreeIds(H2) = {}
        THEN [heap |-> H2, handler |-> 0]
        ELSE NewHandler(H2, element, eventName, callback)

CreateHandler(H, element, eventName, callback) ==
    LET H2 == EnsureStore(H, element, eventName)
        handlers == HandlersOf(H2, element, eventName)
        handlersForEvent == [i \in DOMAIN handlers |-> H2.fn[handlers[i]].callback]
    IN  IF callback \in Range(handlersForEvent)
        THEN [heap |-> H2, handler |-> 0]
        ELSE NewHandler(H2, element, eventName, callback)

\* whether createHandler needs a new function object for this registration
NeedsWrapper(H, element, eventName, callback) ==
    \A i \in DOMAIN HandlersOf(H, element, eventName) :
        H.fn[HandlersOf(H, element, eventName)[i]].callback # callback

(***************************************************************************)
(* add, after the element is resolved.                                     *)
(***************************************************************************)
Register(H, element, eventName, handler) ==
    IF IsCustomEvent(eventName)
    THEN IF HasAddEventListener
         THEN AddEventListener(H, element, DataAvailable, handler)
         ELSE AttachEvent(AttachEvent(H, element, On(DataAvailable), handler),
                          element, On(FilterChange), handler)
    ELSE IF HasAddEventListener
         THEN AddEventListener(H, element, eventName, handler)
         ELSE AttachEvent(H, element, On(eventName), handler)

AddResolved(H, element, eventName, callback) ==
    LET r == CreateHandler(H, element, eventName, callback)
    IN  IF r.handler = 0
        THEN r.heap
        ELSE Register(r.heap, element, eventName, r.handler)

\* a resolution that falls back on the document
ResolveOrDocument(arg) ==
    IF IsString(arg)
    THEN IF GetElement(arg) = Null THEN Document ELSE GetElement(arg)
    ELSE arg

\* add's first statement: a string names an element
Resolve(arg) == IF IsString(arg) THEN GetElement(arg) ELSE arg

(***************************************************************************)
(* remove.  The three forms call each other recursively; a call nested     *)
(* deeper than the engine's stack allows ends the whole call with a        *)
(* RangeError (returned = FALSE), leaving the heap as it was at that point.*)
(***************************************************************************)
ElementOrder == << Document, DocumentElement >>

TypeOrder == << Click, DataAvailable, On(Click), On(DataAvailable), On(FilterChange) >>

RECURSIVE Distinct(_)
Distinct(s) ==
    IF s = << >> THEN << >>
    ELSE LET front == Distinct(SubSeq(s, 1, Len(s) - 1))
         IN  IF s[Len(s)] \in Range(front) THEN front ELSE Append(front, s[Len(s)])

\* the function objects something still refers to, in the order the stores
\* and then the host's lists reach them
Reachable(H) ==
    LET inStore(e) == IF HasModel(H, e)
                      THEN Flatten([k \in DOMAIN Model(H, e) |-> Model(H, e)[k].handlers])
                      ELSE << >>
        inHost(e) == Flatten([t \in DOMAIN TypeOrder |-> H.listeners[e][TypeOrder[t]]])
    IN  Distinct(Flatten([i \in DOMAIN ElementOrder |-> inStore(ElementOrder[i])])
                 \o Flatten([i \in DOMAIN ElementOrder |-> inHost(ElementOrder[i])]))

\* Function objects nothing refers to any more are gone, and the ones left
\* are named 1, 2, ... in the order they are reached: the name of a function
\* object is its address, which no operation looks at.
Collect(H) ==
    LET order == Reachable(H)
        name(id) == IndexOf(order, id)
        names(s) == [i \in DOMAIN s |-> name(s[i])]
    IN  [H EXCEPT
           !.fn = [id \in WrapperIds |-> IF id <= Len(order) THEN H.fn[order[id]] ELSE NoFunction],
           !.storage = [e \in Elements |->
                           IF HasModel(H, e)
                           THEN << [k \in DOMAIN Model(H, e) |->
                                      [Model(H, e)[k] EXCEPT !.handlers = names(@)]] >>
                           ELSE << >>],
           !.listeners = [e \in Elements |-> [t \in ListenerTypes |-> names(H.listeners[e][t])]]]

\* an unregistration that knows only the native event names
UnregisterNative(H, element, eventName, handler) ==
    IF IsCustomEvent(eventName)
    THEN H
    ELSE IF HasAddEventListener
         THEN RemoveEventListener(H, element, eventName, handler)
         ELSE DetachEvent(H, element, On(eventName), handler)

Unregister(H, element, eventName, handler) ==
    IF IsCustomEvent(eventName)
    THEN IF HasAddEventListener
         THEN RemoveEventListener(H, element, DataAvailable, handler)
         ELSE DetachEvent(DetachEvent(H, element, On(DataAvailable), handler),
                          element, On(FilterChange), handler)
    ELSE IF HasAddEventListener
         THEN RemoveEventListener(H, element, eventName, handler)
         ELSE DetachEvent(H, element, On(eventName), handler)

\* remove(element, eventName, callback) from the lookup of the handler on
RemoveHandler(H, element, eventName, callback) ==
    LET k == KeyIndex(Model(H, element), eventName)
        handlers == Model(H, element)[k].handlers
        found == {i \in DOMAIN handlers : H.fn[handlers[i]].callback = callback}
        index == CHOOSE i \in found : \A j \in found : i <= j
        handler == handlers[index]
        H0 == Unregister(H, element, eventName, handler)
        H1 == IF IsCustomEvent(eventName)
              THEN H0
              ELSE [H0 EXCEPT !.storage[element] =
                       << [Model(H0, element) EXCEPT ![k].handlers = RemoveAt(@, index)] >>]
        H2 == [H1 EXCEPT !.fn[handler].callback = Undefined]
        H3 == IF Model(H2, element)[k].handlers = << >>
              THEN [H2 EXCEPT !.storage[element] = << RemoveAt(Model(H2, element), k) >>]
              ELSE H2
    IN  IF found = {} THEN H ELSE H3

RECURSIVE RemoveCall(_, _, _, _, _)
RECURSIVE ForEachHandler(_, _, _, _, _, _)
RECURSIVE ForEachKey(_, _, _, _, _)

\* handlers.forEach: the indices below the length at the start, each one
\* looked up in the array as it is when its turn comes
ForEachHandler(H, element, eventName, k, len, depth) ==
    IF k > len
    THEN [heap |-> H, returned |-> TRUE]
    ELSE LET handlers == HandlersOf(H, element, eventName) IN
         IF k > Len(handlers)
         THEN ForEachHandler(H, element, eventName, k + 1, len, depth)
         ELSE LET r == RemoveCall(H, element, eventName, H.fn[handlers[k]].callback, depth + 1)
              IN  IF r.returned
                  THEN ForEachHandler(r.heap, element, eventName, k + 1, len, depth)
                  ELSE r

\* Object.keys(model).forEach
ForEachKey(H, element, keys, k, depth) ==
    IF k > Len(keys)
    THEN [heap |-> H, returned |-> TRUE]
    ELSE LET r == RemoveCall(H, element, keys[k], Undefined, depth + 1)
         IN  IF r.returned THEN ForEachKey(r.heap, element, keys, k + 1, depth) ELSE r

RemoveCall(H, element, eventName, callback, depth) ==
    IF depth > StackLimit
    THEN [heap |-> H, returned |-> FALSE]
    ELSE IF ~HasModel(H, element)
    THEN [heap |-> H, returned |-> TRUE]
    ELSE IF eventName = NoName
    THEN ForEachKey(H, element,
                    [i \in DOMAIN Model(H, element) |-> Model(H, element)[i].name], 1, depth)
    ELSE IF KeyIndex(Model(H, element), eventName) = 0
    THEN [heap |-> H, returned |-> TRUE]
    ELSE IF callback = Undefined
    THEN ForEachHandler(H, element, eventName, 1,
                        Len(HandlersOf(H, element, eventName)), depth)
    ELSE [heap |-> RemoveHandler(H, element, eventName, callback), returned |-> TRUE]

(***************************************************************************)
(* destroyCache                                                            *)
(***************************************************************************)
RECURSIVE ForEachCached(_, _, _)
ForEachCached(H, cache, k) ==
    IF k > Len(cache)
    THEN [heap |-> H, returned |-> TRUE]
    ELSE LET r == RemoveCall(H, cache[k], NoName, Undefined, 1)
         IN  IF r.returned THEN ForEachCached(r.heap, cache, k + 1) ELSE r

(***************************************************************************)
(* Event delivery: normalize, the two kinds of wrapper, the host's         *)
(* dispatch along the propagation path, and fire.                          *)
(***************************************************************************)
Normalize(event, element) ==
    IF ~HasAttachEvent
    THEN event
    ELSE [type |-> event.type, eventName |-> NoName,
          model |-> IF event.model = Undefined THEN EmptyObject ELSE event.model]

\* a wrapper that does not compare the embedded event name
WrapperOfAnyName(H, id, event) ==
    LET w == H.fn[id]
    IN  << [this |-> w.element, callback |-> w.fn, event |-> Normalize(event, w.element)] >>

\* the calls of the client's callback one wrapper makes for one event
Wrapper(H, id, event) ==
    LET w == H.fn[id]
        call == [this |-> w.element, callback |-> w.fn, event |-> Normalize(event, w.element)]
    IN  IF IsCustomEvent(w.eventName)
        THEN IF event.eventName = NoName
             THEN << >>
             ELSE IF event.eventName # w.eventName
                  THEN << >>
                  ELSE << call >>
        ELSE << call >>

RECURSIVE PropagationPath(_, _)
PropagationPath(target, bubbles) ==
    IF ~bubbles \/ Parent(target) = Null
    THEN << target >>
    ELSE << target >> \o PropagationPath(Parent(target), bubbles)

\* the host delivers the event to the listeners of its type on the target,
\* then on the ancestors if it bubbles, each list in registration order
DispatchEvent(H, target, event, bubbles) ==
    LET path == PropagationPath(target, bubbles)
        At(node) == LET ls == H.listeners[node][event.type]
                    IN  Flatten([j \in DOMAIN ls |-> Wrapper(H, ls[j], event)])
    IN  Flatten([i \in DOMAIN path |-> At(path[i])])

FireCalls(H, element, eventName, data, bubbles) ==
    LET target == IF element = Document /\ HasCreateEvent /\ ~HasDispatchEvent(element)
                  THEN DocumentElement
                  ELSE element
        model == IF data = Undefined THEN EmptyObject ELSE data
    IN  IF HasCreateEvent
        THEN DispatchEvent(H, target,
                 [type |-> DataAvailable, eventName |-> eventName, model |-> model], TRUE)
        ELSE IF HasCreateEventObject
        THEN LET eventType == IF bubbles THEN On(DataAvailable) ELSE On(FilterChange)
             IN  DispatchEvent(H, target,
                     [type |-> eventType, eventName |-> eventName, model |-> model],
                     eventType = On(DataAvailable))
        ELSE << >>

\* the host's own event of a native type on an element
NativeCalls(H, element, eventName) ==
    DispatchEvent(H, element,
        [type |-> IF HasAddEventListener THEN eventName ELSE On(eventName),
         eventName |-> NoName, model |-> Undefined], TRUE)

\* an event on the channel the custom events share, with any embedded name or none
RawCalls(H, element, embedded) ==
    DispatchEvent(H, element,
        [type |-> IF HasAddEventListener THEN DataAvailable ELSE On(DataAvailable),
         eventName |-> embedded, model |-> Undefined], TRUE)

(***************************************************************************)
(* KeyMap (src/unnamed/part_000).  Key names are sequences of characters,  *)
(* so that "ctrl_x" is <<"c", "t", "r", "l", "_", "x">>; an undefined      *)
(* name is the empty sequence.  A number that may be missing from an       *)
(* object is << >> when missing and <<n>> when present.                    *)
(***************************************************************************)
UpperCase == << "A", "B", "C", "D", "E", "F", "G", "H", "I", "J", "K", "L", "M",
                "N", "O", "P", "Q", "R", "S", "T", "U", "V", "W", "X", "Y", "Z" >>
LowerCase == << "a", "b", "c", "d", "e", "f", "g", "h", "i", "j", "k", "l", "m",
                "n", "o", "p", "q", "r", "s", "t", "u", "v", "w", "x", "y", "z" >>

\* String.prototype.toLowerCase
ToLowerCase(s) ==
    [i \in DOMAIN s |-> IF IndexOf(UpperCase, s[i]) = 0
                        THEN s[i]
                        ELSE LowerCase[IndexOf(UpperCase, s[i])]]

\* String.fromCharCode, for the codes of the letters
FromCharCode(code) ==
    IF code \in 65 .. 90 THEN << UpperCase[code - 64] >>
    ELSE IF code \in 97 .. 122 THEN << LowerCase[code - 96] >>
    ELSE << "?" >>

Alt == << "a", "l", "t", "_" >>
Ctrl == << "c", "t", "r", "l", "_" >>
Shift == << "s", "h", "i", "f", "t", "_" >>

\* the table imported from ./printable-chars: key code to key name
PrintableChars(code) == IF code = 88 THEN << "x" >> ELSE NoName

False == "false"
Handlers == {"handlerA", "handlerB"}

CtrlX == Ctrl \o << "x" >>
ShiftL == Shift \o << "l" >>
AltCtrlShiftX == Alt \o Ctrl \o Shift \o << "x" >>
\* the names client code binds handlers under
BindingNames == {CtrlX, << "C", "t", "r", "l", "_", "X" >>, << "l" >>, << "L" >>,
                 ShiftL, AltCtrlShiftX}

EmptyMap == [k \in {} |-> Undefined]

\* this.map[key]
Get(m, key) == IF key \in DOMAIN m THEN m[key] ELSE Undefined

\* this.map[key] = handler
Put(m, key, handler) == [k \in DOMAIN m \cup {key} |-> IF k = key THEN handler ELSE m[k]]

\* delete this.map[key]
Delete(m, key) == [k \in DOMAIN m \ {key} |-> m[k]]

\* a bind that stores the name as it is given
BindAsGiven(m, key, handler) == Put(m, key, handler)

BindKey(m, key, handler) == Put(m, ToLowerCase(key), handler)

UnbindKey(m, key) ==
    IF Get(m, ToLowerCase(key)) # Undefined THEN Delete(m, ToLowerCase(key)) ELSE m

\* the constructor: bindings is the object's properties in Object.keys order
RECURSIVE Construct(_, _)
Construct(m, bindings) ==
    IF bindings = << >>
    THEN m
    ELSE Construct(Put(m, ToLowerCase(Head(bindings).name), Head(bindings).fn), Tail(bindings))

\* what a call of dispatch does: the name it looks up (none when it returns
\* before), the handler calls, what it does to the event, what it returns
Ignored ==
    [lookup |-> NoName, calls |-> << >>, stopPropagation |-> 0, preventDefault |-> 0,
     cancelBubble |-> FALSE, returnValue |-> FALSE, returned |-> Undefined]

\* an invocation that leaves the event alone
InvokeOnly(m, e, modifiers, keyname) ==
    LET func == Get(m, modifiers \o keyname)
    IN  IF func = Undefined
        THEN [Ignored EXCEPT !.lookup = modifiers \o keyname]
        ELSE [Ignored EXCEPT
                !.lookup = modifiers \o keyname,
                !.calls = << [fn |-> func,
                              target |-> IF e.target # Undefined THEN e.target ELSE e.srcElement,
                              key |-> modifiers \o keyname, event |-> e] >>,
                !.returned = False]

\* dispatch from the lookup of the handler on
Invoke(m, e, modifiers, keyname) ==
    LET func == Get(m, modifiers \o keyname)
    IN  IF func = Undefined
        THEN [Ignored EXCEPT !.lookup = modifiers \o keyname]
        ELSE [lookup |-> modifiers \o keyname,
              calls |-> << [fn |-> func,
                            target |-> IF e.target # Undefined THEN e.target ELSE e.srcElement,
                            key |-> modifiers \o keyname, event |-> e] >>,
              stopPropagation |-> IF e.stopPropagation THEN 1 ELSE 0,
              cancelBubble |-> ~e.stopPropagation,
              preventDefault |-> IF e.preventDefault THEN 1 ELSE 0,
              returnValue |-> ~e.preventDefault,
              returned |-> False]

\* a prefix that names ctrl before alt
ModifiersCtrlFirst(e) ==
    (IF e.ctrlKey THEN Ctrl ELSE << >>) \o (IF e.altKey THEN Alt ELSE << >>)
        \o (IF e.shiftKey THEN Shift ELSE << >>)

\* the prefix of a key-down: alt, ctrl, shift, in this order
Modifiers(e) ==
    (IF e.altKey THEN Alt ELSE << >>) \o (IF e.ctrlKey THEN Ctrl ELSE << >>)
        \o (IF e.shiftKey THEN Shift ELSE << >>)

\* a key-down branch that looks the key name up without the prefix
KeyDownUnprefixed(m, e) ==
    IF e.keyCode \in {16, 17, 18} \/ PrintableChars(e.keyCode) = NoName
    THEN Ignored
    ELSE Invoke(m, e, << >>, PrintableChars(e.keyCode))

KeyDown(m, e) ==
    LET code == e.keyCode
        first == PrintableChars(code)
        keyname == IF first = NoName /\ (e.altKey \/ e.ctrlKey)
                   THEN PrintableChars(code)
                   ELSE first
    IN  IF code = 16 \/ code = 17 \/ code = 18
        THEN Ignored
        ELSE IF keyname # NoName
             THEN Invoke(m, e, Modifiers(e), keyname)
             ELSE Ignored

\* a key-press branch that looks the character up as it is
KeyPressCaseSensitive(m, e) ==
    IF e.altKey \/ e.ctrlKey \/ e.charCode = << 0 >>
    THEN Ignored
    ELSE Invoke(m, e, << >>,
                FromCharCode(IF e.charCode = << >> THEN e.keyCode ELSE e.charCode[1]))

\* a key-press branch that goes on when alt or ctrl is held
KeyPressWithModifiers(m, e) ==
    IF e.charCode = << 0 >>
    THEN Ignored
    ELSE LET keyname == FromCharCode(IF e.charCode = << >> THEN e.keyCode ELSE e.charCode[1])
         IN  IF keyname # ToLowerCase(keyname)
             THEN Invoke(m, e, Shift, ToLowerCase(keyname))
             ELSE Invoke(m, e, << >>, keyname)

KeyPress(m, e) ==
    IF e.altKey \/ e.ctrlKey
    THEN Ignored
    ELSE IF e.charCode # << >> /\ e.charCode[1] = 0
    THEN Ignored
    ELSE LET code == IF e.charCode # << >> /\ e.charCode[1] # 0
                     THEN e.charCode[1]
                     ELSE e.keyCode
             keyname == FromCharCode(code)
             lowercase == ToLowerCase(keyname)
         IN  IF keyname # lowercase
             THEN Invoke(m, e, Shift, lowercase)
             ELSE Invoke(m, e, << >>, keyname)

Dispatch(m, e) ==
    IF e.type = "keydown"
    THEN KeyDown(m, e)
    ELSE IF e.type = "keypress"
    THEN KeyPress(m, e)
    ELSE Invoke(m, e, << >>, << "n", "u", "l", "l" >>)

(***************************************************************************)
(* pointer.  A result is a number or NaN.                                  *)
(***************************************************************************)
Number(n) == [nan |-> FALSE, value |-> n]
NaN == [nan |-> TRUE, value |-> 0]

\* a || b on numbers that may be missing
Or(a, b) == IF a # << >> /\ a[1] # 0 THEN a ELSE b

\* event.page || (event.client + (docElem.scroll || body.scroll) - (document.client || 0))
Coordinate(page, client, docElemScroll, bodyScroll, documentClient) ==
    IF page # << >> /\ page[1] # 0
    THEN Number(page[1])
    ELSE LET scroll == Or(docElemScroll, bodyScroll)
             offset == Or(documentClient, << 0 >>)
         IN  IF client = << >> \/ scroll = << >>
             THEN NaN
             ELSE Number(client[1] + scroll[1] - offset[1])

PointerX(event, doc) ==
    LET body == IF doc.body = << >> THEN [scrollLeft |-> << 0 >>, scrollTop |-> << >>]
                ELSE doc.body[1]
    IN  Coordinate(event.pageX, event.clientX, doc.documentElement.scrollLeft,
                   body.scrollLeft, doc.clientLeft)

PointerY(event, doc) ==
    LET body == IF doc.body = << >> THEN [scrollLeft |-> << >>, scrollTop |-> << 0 >>]
                ELSE doc.body[1]
    IN  Coordinate(event.pageY, event.clientY, doc.documentElement.scrollTop,
                   body.scrollTop, doc.clientTop)

Pointer(event, doc) == [x |-> PointerX(event, doc), y |-> PointerY(event, doc)]

(***************************************************************************)
(* The state after the module is loaded.                                   *)
(***************************************************************************)
Call(op, element, eventName, callback, data, bubbles, outcome, calls) ==
    [op |-> op, element |-> element, eventName |-> eventName, callback |-> callback,
     data |-> data, bubbles |-> bubbles, outcome |-> outcome, calls |-> calls]

KeyCall(op, key, handler, before, event, did) ==
    [op |-> op, key |-> key, fn |-> handler, before |-> before, event |-> event, did |-> did]

NoKeyEvent ==
    [type |-> "none", keyCode |-> 0, charCode |-> << >>,
     altKey |-> FALSE, ctrlKey |-> FALSE, shiftKey |-> FALSE,
     target |-> Undefined, srcElement |-> Undefined,
     stopPropagation |-> FALSE, preventDefault |-> FALSE]

NoPointerCall ==
    [op |-> "none",
     event |-> [pageX |-> << >>, pageY |-> << >>, clientX |-> << >>, clientY |-> << >>],
     document |-> [documentElement |-> [scrollLeft |-> << 0 >>, scrollTop |-> << 0 >>],
                   body |-> << >>, clientLeft |-> << >>, clientTop |-> << >>],
     result |-> [x |-> NaN, y |-> NaN]]

InitRegistry ==
    /\ host \in Hosts
    /\ storage = [e \in Elements |-> << >>]
    /\ fn = [id \in WrapperIds |-> NoFunction]
    /\ listeners = [e \in Elements |-> [t \in ListenerTypes |-> << >>]]
    /\ eventCache = << >>
    /\ loaded = FALSE
    /\ onreadystatechange = (host = "ie")
    /\ loadedFires = 0
    /\ registered = [e \in Elements |-> [n \in EventNames |-> << >>]]
    /\ last = Call("load", Null, NoName, Undefined, Undefined, TRUE, "returned", << >>)

\* no KeyMap instance has bindings and pointer has not been called
Init ==
    /\ InitRegistry
    /\ map = EmptyMap
    /\ keyed = KeyCall("new", NoName, Undefined, Undefined, NoKeyEvent, Ignored)
    /\ pointed = NoPointerCall

SetHeap(H) ==
    /\ storage' = Collect(H).storage
    /\ fn' = Collect(H).fn
    /\ listeners' = Collect(H).listeners
    /\ eventCache' = H.eventCache

(***************************************************************************)
(* The operations.                                                         *)
(***************************************************************************)
Add(arg, eventName, callback) ==
    LET element == Resolve(arg) IN
    IF element = Null
    THEN /\ last' = Call("add", arg, eventName, callback, Undefined, TRUE, "Error", << >>)
         /\ UNCHANGED <<host, storage, fn, listeners, eventCache, loaded,
                        onreadystatechange, loadedFires, registered, map, keyed, pointed>>
    ELSE /\ NeedsWrapper(Heap, element, eventName, callback) => FreeIds(Heap) # {}
         /\ SetHeap(AddResolved(Heap, element, eventName, callback))
         /\ registered' = [registered EXCEPT ![element][eventName] =
                              IF callback \in Range(@) THEN @ ELSE Append(@, callback)]
         /\ last' = Call("add", arg, eventName, callback, Undefined, TRUE, "returned", << >>)
         /\ UNCHANGED <<host, loaded, onreadystatechange, loadedFires, map, keyed, pointed>>

Remove(element, eventName, callback) ==
    LET r == RemoveCall(Heap, element, eventName, callback, 1) IN
    /\ SetHeap(r.heap)
    /\ registered' = [registered EXCEPT ![element] =
                         [n \in EventNames |->
                             IF eventName = NoName THEN << >>
                             ELSE IF n # eventName THEN @[n]
                             ELSE IF callback = Undefined THEN << >>
                             ELSE Without(@[n], callback)]]
    /\ last' = Call("remove", element, eventName, callback, Undefined, TRUE,
                    IF r.returned THEN "returned" ELSE "RangeError", << >>)
    /\ UNCHANGED <<host, loaded, onreadystatechange, loadedFires, map, keyed, pointed>>

Fire(element, eventName, data, bubbles) ==
    /\ last' = Call("fire", element, eventName, Undefined, data, bubbles, "returned",
                    FireCalls(Heap, element, eventName, data, bubbles))
    /\ UNCHANGED <<host, storage, fn, listeners, eventCache, loaded,
                   onreadystatechange, loadedFires, registered, map, keyed, pointed>>

\* the host delivers one of its own events of a native type
NativeEvent(element, eventName) ==
    /\ ~IsCustomEvent(eventName)
    /\ last' = Call("native", element, eventName, Undefined, Undefined, TRUE, "returned",
                    NativeCalls(Heap, element, eventName))
    /\ UNCHANGED <<host, storage, fn, listeners, eventCache, loaded,
                   onreadystatechange, loadedFires, registered, map, keyed, pointed>>

\* the host delivers a dataavailable event that fire did not make
RawEvent(element, embedded) ==
    /\ last' = Call("raw", element, embedded, Undefined, Undefined, TRUE, "returned",
                    RawCalls(Heap, element, embedded))
    /\ UNCHANGED <<host, storage, fn, listeners, eventCache, loaded,
                   onreadystatechange, loadedFires, registered, map, keyed, pointed>>

DestroyCache ==
    /\ HasAttachEvent
    /\ LET r == ForEachCached(Heap, eventCache, 1) IN
       /\ SetHeap(r.heap)
       /\ last' = Call("destroyCache", Null, NoName, Undefined, Undefined, TRUE,
                       IF r.returned THEN "returned" ELSE "RangeError", << >>)
    /\ registered' = [e \in Elements |->
                         IF e \in Range(eventCache)
                         THEN [n \in EventNames |-> << >>]
                         ELSE registered[e]]
    /\ UNCHANGED <<host, loaded, onreadystatechange, loadedFires, map, keyed, pointed>>

(***************************************************************************)
(* The dom:loaded bootstrap.                                               *)
(***************************************************************************)
\* a bootstrap that does not look at document.loaded
FireContentLoadedEventUnguarded(op) ==
    /\ loadedFires < MaxLoadedFires
    /\ last' = Call(op, Document, DomLoaded, Undefined, EmptyObject, TRUE, "returned",
                    FireCalls(Heap, Document, DomLoaded, EmptyObject, TRUE))
    /\ loadedFires' = loadedFires + 1
    /\ loaded' = TRUE

FireContentLoadedEvent(op) ==
    IF loaded
    THEN /\ last' = Call(op, Document, DomLoaded, Undefined, Undefined, TRUE, "returned", << >>)
         /\ UNCHANGED <<loaded, loadedFires>>
    ELSE /\ loadedFires < MaxLoadedFires
         /\ last' = Call(op, Document, DomLoaded, Undefined, EmptyObject, TRUE, "returned",
                         FireCalls(Heap, Document, DomLoaded, EmptyObject, TRUE))
         /\ loadedFires' = loadedFires + 1
         /\ loaded' = TRUE

\* the window's DOMContentLoaded listener runs
ContentLoaded ==
    /\ HasAddEventListener
    /\ FireContentLoadedEvent("DOMContentLoaded")
    /\ UNCHANGED <<host, storage, fn, listeners, eventCache, onreadystatechange, registered,
                   map, keyed, pointed>>

\* the deferred script's onreadystatechange callback runs
ReadyStateChange(readyState) ==
    /\ onreadystatechange
    /\ IF readyState = "complete"
       THEN /\ onreadystatechange' = FALSE
            /\ FireContentLoadedEvent("readystatechange")
       ELSE /\ last' = Call("readystatechange", Document, NoName, Undefined, Undefined, TRUE,
                            "returned", << >>)
            /\ UNCHANGED <<onreadystatechange, loaded, loadedFires>>
    /\ UNCHANGED <<host, storage, fn, listeners, eventCache, registered, map, keyed, pointed>>

(***************************************************************************)
(* The registry on one element, with a native and a custom event name.     *)
(***************************************************************************)
Next ==
    \/ \E arg \in {DocumentElement} \cup ElementIds, n \in {Click, LoginRequest},
          cb \in Callbacks : Add(arg, n, cb)
    \/ \E n \in {Click, LoginRequest, NoName}, cb \in Callbacks \cup {Undefined} :
          (n = NoName => cb = Undefined) /\ Remove(DocumentElement, n, cb)
    \/ \E b \in BOOLEAN : Fire(DocumentElement, LoginRequest, Undefined, b)
    \/ NativeEvent(DocumentElement, Click)
    \/ DestroyCache

Spec == Init /\ [][Next]_vars

(***************************************************************************)
(* Two custom event names on one element, with the events the host sends   *)
(* on the shared channel on its own.                                       *)
(***************************************************************************)
NextCustom ==
    \/ \E n \in {LoginRequest, DomLoaded}, cb \in Callbacks : Add(DocumentElement, n, cb)
    \/ \E n \in {LoginRequest, DomLoaded}, cb \in Callbacks : Remove(DocumentElement, n, cb)
    \/ \E n \in {LoginRequest, DomLoaded}, data \in Payloads \cup {Undefined}, b \in BOOLEAN :
          Fire(DocumentElement, n, data, b)
    \/ \E embedded \in {LoginRequest, DomLoaded, NoName} : RawEvent(DocumentElement, embedded)

SpecCustom == Init /\ [][NextCustom]_vars

(***************************************************************************)
(* Custom events on the document and its root element, and the dom:loaded  *)
(* bootstrap.                                                              *)
(***************************************************************************)
NextLoaded ==
    \/ \E e \in Elements, n \in {LoginRequest, DomLoaded} : Add(e, n, "f")
    \/ \E e \in Elements, n \in {LoginRequest, DomLoaded} : Remove(e, n, "f")
    \/ \E e \in Elements, n \in {LoginRequest, DomLoaded}, data \in Payloads \cup {Undefined},
          b \in BOOLEAN : Fire(e, n, data, b)
    \/ ContentLoaded
    \/ \E readyState \in {"loading", "complete"} : ReadyStateChange(readyState)

SpecLoaded == Init /\ [][NextLoaded]_vars

(***************************************************************************)
(* A KeyMap instance: construction, bind, unbind, and the key events the   *)
(* host hands to dispatch.                                                 *)
(***************************************************************************)
\* the objects given to the constructor: their properties in order
BindingObjects ==
    UNION {{b \in [1 .. n -> [name : BindingNames, fn : Handlers]] :
               \A i, j \in 1 .. n : b[i].name = b[j].name => i = j} : n \in 0 .. MaxBindings}

\* what the event object offers: a W3C event, an event of a host with
\* attachEvent only, and an object with one of the two methods
Flavours ==
    {[target |-> DocumentElement, srcElement |-> Undefined,
      stopPropagation |-> TRUE, preventDefault |-> TRUE],
     [target |-> Undefined, srcElement |-> DocumentElement,
      stopPropagation |-> FALSE, preventDefault |-> FALSE],
     [target |-> DocumentElement, srcElement |-> Undefined,
      stopPropagation |-> TRUE, preventDefault |-> FALSE]}

\* key-downs of the modifier keys, of Caps Lock and of X; key-presses of "L"
\* and "l" with the character in charCode or in keyCode, and a key-press
\* that carries no character
Keys ==
    {[type |-> "keydown", keyCode |-> k, charCode |-> << 0 >>] : k \in {16, 17, 18, 20, 88}}
    \cup {[type |-> "keypress", keyCode |-> k, charCode |-> << k >>] : k \in {76, 108}}
    \cup {[type |-> "keypress", keyCode |-> k, charCode |-> << >>] : k \in {76, 108}}
    \cup {[type |-> "keypress", keyCode |-> 20, charCode |-> << 0 >>]}

KeyEvents ==
    {[type |-> k.type, keyCode |-> k.keyCode, charCode |-> k.charCode,
      altKey |-> a, ctrlKey |-> c, shiftKey |-> s,
      target |-> f.target, srcElement |-> f.srcElement,
      stopPropagation |-> f.stopPropagation, preventDefault |-> f.preventDefault] :
        k \in Keys, a \in BOOLEAN, c \in BOOLEAN, s \in BOOLEAN, f \in Flavours}

InitKeys ==
    /\ InitRegistry
    /\ host = "w3c"
    /\ \E bindings \in BindingObjects : map = Construct(EmptyMap, bindings)
    /\ keyed = KeyCall("new", NoName, Undefined, Undefined, NoKeyEvent, Ignored)
    /\ pointed = NoPointerCall

Bind(key, handler) ==
    /\ Cardinality(DOMAIN BindKey(map, key, handler)) <= MaxBindings
    /\ map' = BindKey(map, key, handler)
    /\ keyed' = KeyCall("bind", key, handler, Get(map, ToLowerCase(key)), NoKeyEvent, Ignored)
    /\ UNCHANGED <<registryVars, pointed>>

Unbind(key) ==
    /\ map' = UnbindKey(map, key)
    /\ keyed' = KeyCall("unbind", key, Undefined, Get(map, ToLowerCase(key)), NoKeyEvent, Ignored)
    /\ UNCHANGED <<registryVars, pointed>>

\* the host calls the listener attachToElement registered
KeyEvent(e) ==
    /\ keyed' = KeyCall("dispatch", NoName, Undefined, Undefined, e, Dispatch(map, e))
    /\ UNCHANGED <<registryVars, map, pointed>>

NextKeys ==
    \/ \E key \in BindingNames, handler \in Handlers : Bind(key, handler)
    \/ \E key \in BindingNames : Unbind(key)
    \/ \E e \in KeyEvents : KeyEvent(e)

SpecKeys == InitKeys /\ [][NextKeys]_vars

(***************************************************************************)
(* pointer, on the events and documents a page can hand it.                *)
(***************************************************************************)
Coordinates == {<< >>, << 0 >>, << 2 >>}

PointerEvents ==
    [pageX : Coordinates, pageY : Coordinates, clientX : Coordinates, clientY : Coordinates]

Bodies == {<< >>} \cup {<< [scrollLeft |-> << s >>, scrollTop |-> << s >>] >> : s \in {0, 3}}

Documents ==
    {[documentElement |-> [scrollLeft |-> << s >>, scrollTop |-> << s >>],
      body |-> b, clientLeft |-> c, clientTop |-> c] :
        s \in {0, 3}, b \in Bodies, c \in {<< >>, << 2 >>}}

GetPointer(event, doc) ==
    /\ pointed' = [op |-> "pointer", event |-> event, document |-> doc,
                   result |-> Pointer(event, doc)]
    /\ UNCHANGED <<registryVars, map, keyed>>

NextPointer == \E event \in PointerEvents, doc \in Documents : GetPointer(event, doc)

SpecPointer == Init /\ [][NextPointer]_vars

(***************************************************************************)
(* Vocabulary of the properties.                                           *)
(***************************************************************************)
\* how many times a firing calls the callback with the element as `this`
Count(calls, element, callback) ==
    Cardinality({i \in DOMAIN calls : calls[i].this = element /\ calls[i].callback = callback})

\* the callbacks a firing calls with the element as `this`, in order
CalledOn(calls, element) ==
    LET own == SelectSeq(calls, LAMBDA c : c.this = element)
    IN  [i \in DOMAIN own |-> own[i].callback]

\* what one firing of the event name on the element can call, in the state as it is
Firings(element, eventName) ==
    IF IsCustomEvent(eventName)
    THEN {FireCalls(Heap, element, eventName, data, bubbles) :
             data \in Payloads \cup {Undefined}, bubbles \in BOOLEAN}
    ELSE {NativeCalls(Heap, element, eventName)}

\* the callbacks the element's store records for the event name
Live(element, eventName) ==
    {fn[HandlersOf(Heap, element, eventName)[i]].callback :
        i \in DOMAIN HandlersOf(Heap, element, eventName)} \ {Undefined}

\* the wrappers for (element, eventName, callback) the host has in a list
Listening(element, eventName, callback) ==
    {id \in WrapperIds :
        /\ fn[id].element = element /\ fn[id].eventName = eventName /\ fn[id].fn = callback
        /\ \E t \in ListenerTypes : id \in Range(listeners[element][t])}

\* a wrapper the store still holds for a callback that was removed
Stale(element, eventName, callback) ==
    \E i \in DOMAIN HandlersOf(Heap, element, eventName) :
        /\ fn[HandlersOf(Heap, element, eventName)[i]].fn = callback
        /\ fn[HandlersOf(Heap, element, eventName)[i]].callback = Undefined

HeapUnchanged == UNCHANGED <<storage, fn, listeners, eventCache>>

RemovedCallback ==
    last.op = "remove" /\ last.eventName # NoName /\ last.callback # Undefined

RemovedEventName ==
    last.op = "remove" /\ last.eventName # NoName /\ last.callback = Undefined

RemovedElement == last.op = "remove" /\ last.eventName = NoName

(***************************************************************************)
(* C1. Idempotent registration: for every (element, eventName, callback)   *)
(* the store records at most one wrapper for the callback and the host has *)
(* at most one wrapper for it, listed once, so one firing calls the        *)
(* callback at most once; and right after any add that returned, also a    *)
(* repeated one or one after a remove, a firing calls it exactly once.     *)
(***************************************************************************)
C1_IdempotentRegistration ==
    /\ \A e \in Elements, n \in EventNames, cb \in Callbacks :
          /\ Cardinality({i \in DOMAIN HandlersOf(Heap, e, n) :
                             fn[HandlersOf(Heap, e, n)[i]].callback = cb}) <= 1
          /\ Cardinality(Listening(e, n, cb)) <= 1
          /\ \A calls \in Firings(e, n) : Count(calls, e, cb) <= 1
    /\ \A e \in Elements, t \in ListenerTypes :
          \A i, j \in DOMAIN listeners[e][t] :
              listeners[e][t][i] = listeners[e][t][j] => i = j
    /\ (last.op = "add" /\ last.outcome = "returned") =>
          \A calls \in Firings(Resolve(last.element), last.eventName) :
              Count(calls, Resolve(last.element), last.callback) = 1

\* an add of a callback that had been removed: the old wrapper is still in the store
C1_Witness ==
    /\ last.op = "add" /\ last.outcome = "returned"
    /\ Stale(Resolve(last.element), last.eventName, last.callback)
    /\ last.callback \in Live(Resolve(last.element), last.eventName)

(***************************************************************************)
(* C2. After remove(element, eventName, callback) a firing of eventName on *)
(* the element does not call the callback, and calls every other callback  *)
(* registered for eventName on the element exactly once.                   *)
(***************************************************************************)
C2_RemoveCallback ==
    RemovedCallback =>
        /\ last.outcome = "returned"
        /\ \A calls \in Firings(last.element, last.eventName) :
              /\ Count(calls, last.element, last.callback) = 0
              /\ \A other \in (Live(last.element, last.eventName)
                               \cup Range(registered[last.element][last.eventName]))
                              \ {last.callback} :
                    Count(calls, last.element, other) = 1

\* a callback of a custom event was removed while another one stays registered
C2_Witness ==
    /\ RemovedCallback
    /\ Stale(last.element, last.eventName, last.callback)
    /\ last.callback \notin Live(last.element, last.eventName)
    /\ Live(last.element, last.eventName) # {}

(***************************************************************************)
(* C3. After remove(element, eventName) with no callback a firing of       *)
(* eventName calls no handler of the element, and the callbacks registered *)
(* for the other event names of the element are still called once each.    *)
(***************************************************************************)
C3_RemoveEventName ==
    RemovedEventName =>
        /\ \A calls \in Firings(last.element, last.eventName) :
              CalledOn(calls, last.element) = << >>
        /\ \A m \in EventNames \ {last.eventName} :
              \A cb \in Range(registered[last.element][m]) :
                  \A calls \in Firings(last.element, m) : Count(calls, last.element, cb) = 1

(***************************************************************************)
(* C4. After remove(element) with no event name no firing of any event     *)
(* name, native or custom, calls a handler of the element.                 *)
(***************************************************************************)
C4_RemoveElement ==
    RemovedElement =>
        \A n \in EventNames :
            \A calls \in Firings(last.element, n) : CalledOn(calls, last.element) = << >>

(***************************************************************************)
(* C5. Every call of remove, in each of its three forms, and the bulk      *)
(* cleanup that calls it, returns: none ends by exhausting the call stack. *)
(***************************************************************************)
C5_RemoveReturns ==
    last.op \in {"remove", "destroyCache"} => last.outcome = "returned"

(***************************************************************************)
(* C7. A firing calls the callbacks registered for the event name on the   *)
(* element in the order of their latest registration with add.             *)
(***************************************************************************)
C7_RegistrationOrder ==
    \A e \in Elements, n \in EventNames :
        \A calls \in Firings(e, n) :
            SelectSeq(CalledOn(calls, e), LAMBDA cb : cb \in Range(registered[e][n]))
                = registered[e][n]

(***************************************************************************)
(* C9. remove returns silently and leaves the stores, the element cache    *)
(* and the host's lists as they are when the element has no store, when    *)
(* the event name has no handler on the element, or when the callback is   *)
(* not registered for the event name.                                      *)
(***************************************************************************)
C9_RemoveNothing ==
    [][(/\ last'.op = "remove"
        /\ \/ ~HasModel(Heap, last'.element)
           \/ last'.eventName # NoName /\ Live(last'.element, last'.eventName) = {}
           \/ /\ last'.eventName # NoName /\ last'.callback # Undefined
              /\ last'.callback \notin Live(last'.element, last'.eventName))
          => (last'.outcome = "returned" /\ HeapUnchanged)]_vars

(***************************************************************************)
(* C8. add with a string identifier that resolves to no element raises an  *)
(* error and changes nothing: no store, no cache entry, no registration.   *)
(***************************************************************************)
C8_AddUnresolved ==
    [][(last'.op = "add" /\ IsString(last'.element) /\ GetElement(last'.element) = Null) =>
          (last'.outcome = "Error" /\ HeapUnchanged)]_vars

\* the failed add happened on a page that has registrations
C8_Witness ==
    /\ last.op = "add" /\ last.outcome = "Error" /\ last.element = "#missing"
    /\ \E e \in Elements, n \in EventNames : Live(e, n) # {}

(***************************************************************************)
(* C6. fire(element, N, data) calls each callback registered on element    *)
(* for the custom name N exactly once, with an event whose model is data,  *)
(* or an empty object when no data is given, and calls nothing that is     *)
(* registered on the element only for another custom name; an event on the *)
(* shared channel calls only the callbacks registered for the name it      *)
(* embeds, and none when it embeds no name.                                *)
(***************************************************************************)
C6_CustomDelivery ==
    /\ last.op = "fire" =>
          /\ \A cb \in Live(last.element, last.eventName) :
                Count(last.calls, last.element, cb) = 1
          /\ \A i \in DOMAIN last.calls :
                /\ last.calls[i].callback \in Live(last.calls[i].this, last.eventName)
                /\ last.calls[i].event.model =
                      IF last.data = Undefined THEN EmptyObject ELSE last.data
    /\ last.op = "raw" =>
          /\ \A i \in DOMAIN last.calls :
                last.calls[i].callback \in Live(last.calls[i].this, last.eventName)
          /\ \A e \in Elements, cb \in Callbacks : Count(last.calls, e, cb) <= 1
          /\ last.eventName = NoName => last.calls = << >>

\* a fire with data on an element that has callbacks for both names, one of
\* them registered for the other name only
C6_Witness ==
    /\ last.op = "fire" /\ last.data \in Payloads /\ last.calls # << >>
    /\ \E m \in EventNames \ {last.eventName} :
          Live(last.element, m) \ Live(last.element, last.eventName) # {}

(***************************************************************************)
(* C10. The bootstrap executes fire(document, "dom:loaded") for the first  *)
(* readiness signal and for no later one, however often the host signals,  *)
(* and that one firing calls each dom:loaded handler at most once.         *)
(***************************************************************************)
C10_DomLoadedOnce ==
    /\ [](loadedFires <= 1 /\ (loaded <=> loadedFires = 1))
    /\ [][(last'.op \in {"DOMContentLoaded", "readystatechange"} /\ last'.eventName = DomLoaded)
            => IF loaded
               THEN last'.calls = << >> /\ loadedFires' = loadedFires
               ELSE /\ loadedFires' = 1
                    /\ last'.calls = FireCalls(Heap, Document, DomLoaded, EmptyObject, TRUE)
                    /\ \A e \in Elements, cb \in Callbacks : Count(last'.calls, e, cb) <= 1]_vars

\* the host signalled again after dom:loaded was fired, with a handler waiting
C10_Witness ==
    /\ last.op = "DOMContentLoaded" /\ last.calls = << >>
    /\ loaded /\ loadedFires = 1
    /\ Live(Document, DomLoaded) # {}

(***************************************************************************)
(* C11. The bubbles argument of fire decides whether the custom event      *)
(* bubbles, on hosts with createEvent and hosts with createEventObject     *)
(* alike: with bubbles = true every callback registered for the event name *)
(* on the element or on an ancestor is called once, with bubbles = false   *)
(* only callbacks registered on the element itself are called.             *)
(***************************************************************************)
C11_Bubbles ==
    last.op = "fire" =>
        IF last.bubbles
        THEN \A i \in DOMAIN PropagationPath(last.element, TRUE) :
                 \A cb \in Live(PropagationPath(last.element, TRUE)[i], last.eventName) :
                     Count(last.calls, PropagationPath(last.element, TRUE)[i], cb) = 1
        ELSE \A i \in DOMAIN last.calls : last.calls[i].this = last.element

(***************************************************************************)
(* C17. Event-name entries do not outlive their handlers: once             *)
(* remove(element, eventName, callback) has removed the last callback of   *)
(* the event name, native or custom, the element's store has no entry for  *)
(* the event name; and in every state no entry holds an empty handler      *)
(* sequence or a wrapper whose callback property is gone.                  *)
(***************************************************************************)
C17_NoDeadEntries ==
    /\ (RemovedCallback /\ Live(last.element, last.eventName) = {}) =>
          (HasModel(Heap, last.element) =>
              KeyIndex(Model(Heap, last.element), last.eventName) = 0)
    /\ \A e \in Elements :
          HasModel(Heap, e) =>
              \A k \in DOMAIN Model(Heap, e) :
                  /\ Model(Heap, e)[k].handlers # << >>
                  /\ \A i \in DOMAIN Model(Heap, e)[k].handlers :
                        fn[Model(Heap, e)[k].handlers[i]].callback # Undefined

\* the host's registrations of an element for an event name: the shared
\* dataavailable channel for a custom name, the name itself for a native one
HostRegistered(element, eventName) ==
    IF IsCustomEvent(eventName)
    THEN IF HasAddEventListener
         THEN Range(listeners[element][DataAvailable])
         ELSE Range(listeners[element][On(DataAvailable)])
                  \cap Range(listeners[element][On(FilterChange)])
    ELSE IF HasAddEventListener
         THEN Range(listeners[element][eventName])
         ELSE Range(listeners[element][On(eventName)])

(***************************************************************************)
(* C18. The store and the host agree: a wrapper is in the handler sequence *)
(* of an element for an event name exactly when the host has it registered *)
(* on the element for that event name (on the dataavailable channel for a  *)
(* custom name, under the name itself for a native one).                   *)
(***************************************************************************)
C18_StoreMatchesHost ==
    \A e \in Elements, n \in EventNames, id \in WrapperIds :
        id \in Range(HandlersOf(Heap, e, n))
            <=> (id \in HostRegistered(e, n) /\ fn[id].element = e /\ fn[id].eventName = n)

(***************************************************************************)
(* C19. The element cache: an element enters the cache once, at its first  *)
(* registration, and is never in it twice; and the bulk cleanup clears the *)
(* whole cache, so that the cache is empty after it.                       *)
(***************************************************************************)
C19_CacheLifecycle ==
    /\ \A i, j \in DOMAIN eventCache : eventCache[i] = eventCache[j] => i = j
    /\ \A e \in Elements : HasModel(Heap, e) => e \in Range(eventCache)
    /\ last.op = "destroyCache" => eventCache = << >>

(***************************************************************************)
(* Vocabulary of the KeyMap and pointer properties.                        *)
(***************************************************************************)
Dispatched == keyed.op = "dispatch"

IsLowerCaseName(k) == \A i \in DOMAIN k : k[i] \notin Range(UpperCase)

SameUpToCase(a, b) == ToLowerCase(a) = ToLowerCase(b)

\* the character a key-press carries, in charCode or else in keyCode
Produced(e) == FromCharCode(IF e.charCode = << >> THEN e.keyCode ELSE e.charCode[1])

\* the prefix of each of the eight combinations of modifiers
Prefix(altKey, ctrlKey, shiftKey) ==
    CASE altKey /\ ctrlKey /\ shiftKey -> << "a", "l", "t", "_", "c", "t", "r", "l", "_",
                                            "s", "h", "i", "f", "t", "_" >>
      [] altKey /\ ctrlKey /\ ~shiftKey -> << "a", "l", "t", "_", "c", "t", "r", "l", "_" >>
      [] altKey /\ ~ctrlKey /\ shiftKey -> << "a", "l", "t", "_", "s", "h", "i", "f", "t", "_" >>
      [] altKey /\ ~ctrlKey /\ ~shiftKey -> << "a", "l", "t", "_" >>
      [] ~altKey /\ ctrlKey /\ shiftKey -> << "c", "t", "r", "l", "_", "s", "h", "i", "f", "t", "_" >>
      [] ~altKey /\ ctrlKey /\ ~shiftKey -> << "c", "t", "r", "l", "_" >>
      [] ~altKey /\ ~ctrlKey /\ shiftKey -> << "s", "h", "i", "f", "t", "_" >>
      [] ~altKey /\ ~ctrlKey /\ ~shiftKey -> << >>

OrZero(v) == IF v = << >> THEN 0 ELSE v[1]

(***************************************************************************)
(* C12. The outcome of a key dispatch.  When the composite key name has no *)
(* binding (or the event is ignored before a name is made) no handler is   *)
(* called, stopPropagation and preventDefault are not called, cancelBubble *)
(* and returnValue are not set, and dispatch returns undefined.  When it   *)
(* has a binding, the bound handler is called exactly once with the target,*)
(* the composite key name and the event, propagation and the default       *)
(* action are suppressed by the event's methods, or by cancelBubble and    *)
(* returnValue where the event has no such method, and dispatch returns    *)
(* false.                                                                  *)
(***************************************************************************)
C12_DispatchOutcome ==
    Dispatched =>
        IF keyed.did.lookup = NoName \/ keyed.did.lookup \notin DOMAIN map
        THEN /\ keyed.did.calls = << >>
             /\ keyed.did.stopPropagation = 0 /\ keyed.did.preventDefault = 0
             /\ ~keyed.did.cancelBubble /\ ~keyed.did.returnValue
             /\ keyed.did.returned = Undefined
        ELSE /\ keyed.did.calls = << [fn |-> map[keyed.did.lookup], target |-> DocumentElement,
                                      key |-> keyed.did.lookup, event |-> keyed.event] >>
             /\ IF keyed.event.stopPropagation
                THEN keyed.did.stopPropagation = 1 /\ ~keyed.did.cancelBubble
                ELSE keyed.did.stopPropagation = 0 /\ keyed.did.cancelBubble
             /\ IF keyed.event.preventDefault
                THEN keyed.did.preventDefault = 1 /\ ~keyed.did.returnValue
                ELSE keyed.did.preventDefault = 0 /\ keyed.did.returnValue
             /\ keyed.did.returned = False

\* a bound key on an event that has stopPropagation but not preventDefault
C12_Witness ==
    /\ Dispatched /\ keyed.did.calls # << >>
    /\ keyed.did.stopPropagation = 1 /\ keyed.did.returnValue

(***************************************************************************)
(* C13. With a handler bound under "ctrl_x" and under no other name, a     *)
(* key-down of the X key (code 88) with ctrl alone held calls the handler  *)
(* exactly once with the composite key "ctrl_x", and the same key-down     *)
(* without ctrl does not call it.                                          *)
(***************************************************************************)
C13_CtrlX ==
    (/\ Dispatched /\ keyed.event.type = "keydown" /\ keyed.event.keyCode = 88
     /\ CtrlX \in DOMAIN map
     /\ \A k \in DOMAIN map \ {CtrlX} : map[k] # map[CtrlX]) =>
        /\ (keyed.event.ctrlKey /\ ~keyed.event.altKey /\ ~keyed.event.shiftKey) =>
              /\ Len(keyed.did.calls) = 1
              /\ keyed.did.calls[1].fn = map[CtrlX]
              /\ keyed.did.calls[1].key = << "c", "t", "r", "l", "_", "x" >>
        /\ ~keyed.event.ctrlKey =>
              \A i \in DOMAIN keyed.did.calls : keyed.did.calls[i].fn # map[CtrlX]

\* ctrl+X called the handler bound under "ctrl_x"
C13_Witness ==
    /\ Dispatched /\ keyed.event.type = "keydown" /\ keyed.event.keyCode = 88
    /\ keyed.event.ctrlKey /\ ~keyed.event.altKey /\ ~keyed.event.shiftKey
    /\ Get(map, CtrlX) = "handlerA"
    /\ keyed.did.calls # << >> /\ keyed.did.calls[1].fn = "handlerA"

(***************************************************************************)
(* C14. A key-press that carries an uppercase letter, with alt and ctrl    *)
(* not held, is looked up as "shift_" followed by the lowercase letter     *)
(* whether shiftKey is set or not, and so calls no handler through the     *)
(* binding of the lowercase letter alone; a key-press that carries a       *)
(* lowercase letter is looked up under the letter, without a prefix.       *)
(***************************************************************************)
C14_CapsLock ==
    (/\ Dispatched /\ keyed.event.type = "keypress"
     /\ ~keyed.event.altKey /\ ~keyed.event.ctrlKey
     /\ keyed.event.charCode # << 0 >>) =>
        IF Produced(keyed.event)[1] \in Range(UpperCase)
        THEN /\ keyed.did.lookup =
                   << "s", "h", "i", "f", "t", "_",
                      LowerCase[IndexOf(UpperCase, Produced(keyed.event)[1])] >>
             /\ \A i \in DOMAIN keyed.did.calls :
                   keyed.did.calls[i].key #
                       << LowerCase[IndexOf(UpperCase, Produced(keyed.event)[1])] >>
        ELSE keyed.did.lookup = Produced(keyed.event)

\* "L" typed without shift while "l" and "shift_l" are both bound
C14_Witness ==
    /\ Dispatched /\ keyed.event.type = "keypress" /\ ~keyed.event.shiftKey
    /\ Produced(keyed.event) = << "L" >>
    /\ << "l" >> \in DOMAIN map /\ ShiftL \in DOMAIN map /\ map[<< "l" >>] # map[ShiftL]
    /\ keyed.did.calls # << >> /\ keyed.did.calls[1].fn = map[ShiftL]

(***************************************************************************)
(* C15. Bindings are case-insensitive.  After construction and after any   *)
(* bind and unbind every key of the map is in lowercase; after bind(K, f)  *)
(* the one key equal to K up to case is bound to f; after unbind(K) no key *)
(* equal to K up to case is bound; and a dispatch calls only the handler   *)
(* the map holds for the composite key, so none for an unbound key.        *)
(***************************************************************************)
C15_CaseInsensitive ==
    /\ \A k \in DOMAIN map : IsLowerCaseName(k)
    /\ keyed.op = "bind" =>
          /\ \E k \in DOMAIN map : SameUpToCase(k, keyed.key)
          /\ \A k \in DOMAIN map : SameUpToCase(k, keyed.key) => map[k] = keyed.fn
    /\ keyed.op = "unbind" => \A k \in DOMAIN map : ~SameUpToCase(k, keyed.key)
    /\ Dispatched =>
          \A i \in DOMAIN keyed.did.calls :
              /\ keyed.did.calls[i].key \in DOMAIN map
              /\ keyed.did.calls[i].fn = map[keyed.did.calls[i].key]

\* unbind under another casing removed a binding
C15_Witness ==
    /\ keyed.op = "unbind" /\ ~IsLowerCaseName(keyed.key)
    /\ keyed.before # Undefined
    /\ map # EmptyMap

(***************************************************************************)
(* C16. pointer(event) returns pageX and pageY whenever the event has      *)
(* them, whatever their value, 0 included; when the event has none it      *)
(* returns clientX / clientY plus the scroll offset of the document minus  *)
(* its client offset, a missing scroll or offset source counting as 0.     *)
(***************************************************************************)
C16_Pointer ==
    pointed.op = "pointer" =>
        LET Expected(page, client, docElemScroll, bodyScroll, offset) ==
                IF page # << >>
                THEN Number(page[1])
                ELSE Number(OrZero(client)
                            + (IF OrZero(docElemScroll) # 0 THEN OrZero(docElemScroll)
                               ELSE OrZero(bodyScroll))
                            - OrZero(offset))
            body == IF pointed.document.body = << >>
                    THEN [scrollLeft |-> << >>, scrollTop |-> << >>]
                    ELSE pointed.document.body[1]
        IN  /\ (pointed.event.pageX # << >> \/ pointed.event.clientX # << >>) =>
                  pointed.result.x =
                      Expected(pointed.event.pageX, pointed.event.clientX,
                               pointed.document.documentElement.scrollLeft,
                               body.scrollLeft, pointed.document.clientLeft)
            /\ (pointed.event.pageY # << >> \/ pointed.event.clientY # << >>) =>
                  pointed.result.y =
                      Expected(pointed.event.pageY, pointed.event.clientY,
                               pointed.document.documentElement.scrollTop,
                               body.scrollTop, pointed.document.clientTop)

(***************************************************************************)
(* C20. On a key-down whose key code has a name in the lookup table the    *)
(* composite key is "alt_" if alt is held, then "ctrl_" if ctrl is held,   *)
(* then "shift_" if shift is held, followed by the name of the table, for  *)
(* each of the eight combinations of the modifiers; the bound handler is   *)
(* called with that composite key.                                         *)
(***************************************************************************)
C20_ModifierOrder ==
    (/\ Dispatched /\ keyed.event.type = "keydown"
     /\ PrintableChars(keyed.event.keyCode) # NoName) =>
        /\ keyed.did.lookup =
              Prefix(keyed.event.altKey, keyed.event.ctrlKey, keyed.event.shiftKey)
                  \o PrintableChars(keyed.event.keyCode)
        /\ \A i \in DOMAIN keyed.did.calls : keyed.did.calls[i].key = keyed.did.lookup

\* alt, ctrl and shift together, with a handler bound for the combination
C20_Witness ==
    /\ Dispatched /\ keyed.event.type = "keydown"
    /\ keyed.event.altKey /\ keyed.event.ctrlKey /\ keyed.event.shiftKey
    /\ keyed.did.calls # << >>
    /\ keyed.did.calls[1].key = << "a", "l", "t", "_", "c", "t", "r", "l", "_",
                                   "s", "h", "i", "f", "t", "_", "x" >>

(***************************************************************************)
(* C21. Ignored key events never reach a handler, whatever the map holds:  *)
(* a key-down of a modifier key (code 16, 17 or 18), a key-down whose code *)
(* has no name in the lookup table, and a key-press with alt or ctrl held  *)
(* or with a charCode of 0 call no handler and leave the event as it was:  *)
(* no stopPropagation, no preventDefault, no cancelBubble, no returnValue. *)
(***************************************************************************)
C21_IgnoredEvents ==
    (/\ Dispatched
     /\ \/ /\ keyed.event.type = "keydown"
           /\ \/ keyed.event.keyCode \in {16, 17, 18}
              \/ PrintableChars(keyed.event.keyCode) = NoName
        \/ /\ keyed.event.type = "keypress"
           /\ \/ keyed.event.altKey
              \/ keyed.event.ctrlKey
              \/ keyed.event.charCode = << 0 >>) =>
        /\ keyed.did.calls = << >>
        /\ keyed.did.stopPropagation = 0 /\ keyed.did.preventDefault = 0
        /\ ~keyed.did.cancelBubble /\ ~keyed.did.returnValue

\* "l" typed with ctrl held while a handler is bound under "l"
C21_Witness ==
    /\ Dispatched /\ keyed.event.type = "keypress"
    /\ keyed.event.ctrlKey /\ ~keyed.event.altKey
    /\ Produced(keyed.event) = << "l" >> /\ keyed.event.charCode # << 0 >>
    /\ << "l" >> \in DOMAIN map
    /\ keyed.did.calls = << >>

====
